---------------------------- MODULE Spec2Model ----------------------------
(***************************************************************************)
(* A model of the todo list manager of src/script.js: the sanitizer, the   *)
(* validator, the localStorage store, the importer/exporter and the event  *)
(* handlers that drive them.                                               *)
(*                                                                         *)
(* A JavaScript string is a sequence of one-character strings.  The        *)
(* characters that matter to script.js are classified below; a control     *)
(* character is written by its code point ("U+0001").                      *)
(***************************************************************************)
EXTENDS Integers, Sequences, FiniteSets, TLC

(***************************************************************************)
(* Characters                                                              *)
(***************************************************************************)
UpperCase == <<"A","B","C","D","E","F","G","H","I","J","K","L","M",
               "N","O","P","Q","R","S","T","U","V","W","X","Y","Z">>

LowerCase == <<"a","b","c","d","e","f","g","h","i","j","k","l","m",
               "n","o","p","q","r","s","t","u","v","w","x","y","z">>

Digits == {"0","1","2","3","4","5","6","7","8","9"}

\* \w of the regular expressions: [A-Za-z0-9_]
WordChars == {UpperCase[i] : i \in 1..26} \cup {LowerCase[i] : i \in 1..26}
                \cup Digits \cup {"_"}

\* \s of the regular expressions and the characters String.trim removes
WhiteSpace == {" ", "\t", "\n", "\r", "\f", "U+000B"}

\* the class [\x00-\x08\x0B\x0C\x0E-\x1F\x7F] of line 81
ControlChars == {"U+0000", "U+0001", "U+0008", "U+000B", "\f", "U+000E",
                 "U+001F", "U+007F"}

Quotes == {"\"", "'"}

\* the lower-case letter of each upper-case letter
LowerOf ==
  [c \in {UpperCase[i] : i \in 1..26} |->
     LowerCase[CHOOSE i \in 1..26 : UpperCase[i] = c]]

\* String.prototype.toLowerCase on one character
toLowerCase(c) == IF c \in DOMAIN LowerOf THEN LowerOf[c] ELSE c

\* String.prototype.toLowerCase
LowerStr(s) == [i \in 1..Len(s) |-> toLowerCase(s[i])]

(***************************************************************************)
(* String helpers                                                          *)
(***************************************************************************)
\* the least index k >= i with s[k] \in set, or 0 when there is none
FirstIn(s, i, set) ==
  IF \A k \in i..Len(s) : s[k] \notin set THEN 0
  ELSE CHOOSE k \in i..Len(s) :
         s[k] \in set /\ \A j \in i..(k - 1) : s[j] \notin set

\* the least index k >= i with s[k] \notin set, Len(s)+1 when there is none
FirstNotIn(s, i, set) ==
  IF \A k \in i..Len(s) : s[k] \in set THEN Len(s) + 1
  ELSE CHOOSE k \in i..Len(s) :
         s[k] \notin set /\ \A j \in i..(k - 1) : s[j] \in set

\* the greatest index k with s[k] \notin set, or 0 when there is none
LastNotIn(s, set) ==
  IF \A k \in 1..Len(s) : s[k] \in set THEN 0
  ELSE LET n == Len(s)
           d == CHOOSE e \in 0..(n - 1) :
                  s[n - e] \notin set /\ \A j \in 0..(e - 1) : s[n - j] \in set
       IN  n - d

\* s has the literal lit (given in lower case) at index i, ignoring case
HasAtCI(s, i, lit) ==
  /\ i >= 1
  /\ i + Len(lit) - 1 <= Len(s)
  /\ \A k \in 1..Len(lit) : toLowerCase(s[i + k - 1]) = lit[k]

\* s has the literal lit at index i, case-sensitively (String.startsWith)
HasAt(s, i, lit) ==
  /\ i >= 1
  /\ i + Len(lit) - 1 <= Len(s)
  /\ \A k \in 1..Len(lit) : s[i + k - 1] = lit[k]

\* the least index k >= i where lit occurs ignoring case, or 0
FirstLitCI(s, i, lit) ==
  IF \A k \in i..Len(s) : ~HasAtCI(s, k, lit) THEN 0
  ELSE CHOOSE k \in i..Len(s) :
         HasAtCI(s, k, lit) /\ \A j \in i..(k - 1) : ~HasAtCI(s, j, lit)

\* \b between s[i-1] (a word character) and s[i]
BoundaryAfterWord(s, i) == i > Len(s) \/ s[i] \notin WordChars

\* String.prototype.trim
Trim(s) ==
  IF LastNotIn(s, WhiteSpace) = 0 THEN <<>>
  ELSE SubSeq(s, FirstNotIn(s, 1, WhiteSpace), LastNotIn(s, WhiteSpace))

\* n copies of the string s, one after the other
Rep(s, n) == [i \in 1..(n * Len(s)) |-> s[((i - 1) % Len(s)) + 1]]

\* the concatenation of the strings of the sequence ss, by halves
RECURSIVE Flatten(_)
Flatten(ss) ==
  IF Len(ss) = 0 THEN <<>>
  ELSE IF Len(ss) = 1 THEN ss[1]
  ELSE LET m == Len(ss) \div 2
       IN  Flatten(SubSeq(ss, 1, m)) \o Flatten(SubSeq(ss, m + 1, Len(ss)))

(***************************************************************************)
(* sanitizeText, lines 43-84.  Each replace(/re/g, '') of lines 53-64 is   *)
(* RemoveAll over the pattern's matcher: MatchEnd(p, s, i) is the index of *)
(* the last character of the match of pattern p that starts at i, or 0.    *)
(***************************************************************************)

\* /<tag\b[^<]*(?:(?!<\/tag>)<[^<]*)*<\/tag>/gi  (lines 53-57): from "<tag"
\* at a word boundary to the first "</tag>" that follows
BlockEnd(tag, s, i) ==
  LET open  == <<"<">> \o tag
      close == <<"<", "/">> \o tag \o <<">">>
      from  == i + Len(open)
      j     == FirstLitCI(s, from, close)
  IN  IF HasAtCI(s, i, open) /\ BoundaryAfterWord(s, from) /\ j > 0
        THEN j + Len(close) - 1
        ELSE 0

\* /<tag\b[^>]*>/gi  (lines 58-59)
VoidEnd(tag, s, i) ==
  LET open == <<"<">> \o tag
      from == i + Len(open)
  IN  IF HasAtCI(s, i, open) /\ BoundaryAfterWord(s, from)
        THEN FirstIn(s, from, {">"})
        ELSE 0

\* /on\w+\s*=\s*["'][^"']*["']/gi  (line 60)
HandlerEnd(s, i) ==
  LET w  == FirstNotIn(s, i + 2, WordChars)      \* after on\w+
      eq == FirstNotIn(s, w, WhiteSpace)         \* the =
      q  == FirstNotIn(s, eq + 1, WhiteSpace)    \* the opening quote
  IN  IF /\ HasAtCI(s, i, <<"o", "n">>)
         /\ w > i + 2
         /\ eq <= Len(s) /\ s[eq] = "="
         /\ q <= Len(s) /\ s[q] \in Quotes
        THEN FirstIn(s, q + 1, Quotes)
        ELSE 0

\* /scheme\s*:/gi  (lines 61-63)
SchemeEnd(scheme, s, i) ==
  LET c == FirstNotIn(s, i + Len(scheme), WhiteSpace)
  IN  IF HasAtCI(s, i, scheme) /\ c <= Len(s) /\ s[c] = ":" THEN c ELSE 0

\* /<[^>]*>/g  (line 64)
TagEnd(s, i) ==
  IF i <= Len(s) /\ s[i] = "<" THEN FirstIn(s, i + 1, {">"}) ELSE 0

MatchEnd(p, s, i) ==
  CASE p.kind = "block"   -> BlockEnd(p.lit, s, i)
    [] p.kind = "void"    -> VoidEnd(p.lit, s, i)
    [] p.kind = "handler" -> HandlerEnd(s, i)
    [] p.kind = "scheme"  -> SchemeEnd(p.lit, s, i)
    [] p.kind = "tag"     -> TagEnd(s, i)

\* the least index k >= i where a match of p starts, or 0; a match of p
\* starts with one of the characters p.first
FirstMatch(p, s, i) ==
  LET starts == {k \in i..Len(s) : s[k] \in p.first /\ MatchEnd(p, s, k) >= k}
  IN  IF starts = {} THEN 0 ELSE CHOOSE k \in starts : \A j \in starts : k <= j

\* String.prototype.replace(/p/g, ''): the scan goes left to right; at the
\* first index at or after i where p matches, the match is dropped and the
\* scan goes on behind it
RECURSIVE RemoveAll(_, _, _)
\* the scan from i, the next match starting at k (0: there is none)
RemoveFrom(p, s, i, k) ==
  IF k = 0 THEN SubSeq(s, i, Len(s))
  ELSE SubSeq(s, i, k - 1) \o RemoveAll(p, s, MatchEnd(p, s, k) + 1)

RemoveAll(p, s, i) == RemoveFrom(p, s, i, FirstMatch(p, s, i))

\* the patterns of lines 53-64, in the order they are applied
Block(tag) == [kind |-> "block", lit |-> tag, first |-> {"<"}]

Void(tag) == [kind |-> "void", lit |-> tag, first |-> {"<"}]

Scheme(name) ==
  [kind |-> "scheme", lit |-> name,
   first |-> {c \in WordChars : toLowerCase(c) = name[1]}]

Patterns ==
  << Block(<<"s","c","r","i","p","t">>),
     Block(<<"s","t","y","l","e">>),
     Block(<<"i","f","r","a","m","e">>),
     Block(<<"o","b","j","e","c","t">>),
     Block(<<"e","m","b","e","d">>),
     Void(<<"l","i","n","k">>),
     Void(<<"m","e","t","a">>),
     [kind |-> "handler", lit |-> <<>>, first |-> {"o", "O"}],
     Scheme(<<"j","a","v","a","s","c","r","i","p","t">>),
     Scheme(<<"d","a","t","a">>),
     Scheme(<<"v","b","s","c","r","i","p","t">>),
     [kind |-> "tag", lit |-> <<>>, first |-> {"<"}] >>

RECURSIVE ApplyPatterns(_, _)
ApplyPatterns(s, k) ==
  IF k > Len(Patterns) THEN s
  ELSE ApplyPatterns(RemoveAll(Patterns[k], s, 1), k + 1)

\* escapeMap, lines 67-73
escapeMap(c) ==
  CASE c = "<"  -> <<"&","l","t",";">>
    [] c = ">"  -> <<"&","g","t",";">>
    [] c = "\"" -> <<"&","q","u","o","t",";">>
    [] c = "'"  -> <<"&","#","x","2","7",";">>
    [] c = "&"  -> <<"&","a","m","p",";">>
    [] OTHER    -> <<c>>

\* replace(/[<>"'&]/g, match => escapeMap[match]), lines 65-75
Escape(s) ==
  IF \A i \in 1..Len(s) : s[i] \notin {"<", ">", "\"", "'", "&"} THEN s
  ELSE Flatten([i \in 1..Len(s) |-> escapeMap(s[i])])

\* replace(/\s+/g, ' '), line 78: a run of white space becomes one space
CollapseSpaces(s) ==
  IF \A i \in 1..Len(s) : s[i] \notin WhiteSpace THEN s
  ELSE
  Flatten([i \in 1..Len(s) |->
             IF s[i] \notin WhiteSpace THEN <<s[i]>>
             ELSE IF i > 1 /\ s[i - 1] \in WhiteSpace THEN <<>>
             ELSE <<" ">>])

\* replace(/[\x00-\x08\x0B\x0C\x0E-\x1F\x7F]/g, ''), line 81
RemoveControl(s) == SelectSeq(s, LAMBDA c : c \notin ControlChars)

(***************************************************************************)
(* JavaScript values as far as script.js looks at them: the typeof, the    *)
(* characters of a string, and the truthiness (Boolean(v), v || '').       *)
(***************************************************************************)
Str(s) == [t |-> "string", s |-> s, truthy |-> s # <<>>]

Bool(b) == [t |-> "boolean", s |-> <<>>, truthy |-> b]

Num(truthy) == [t |-> "number", s |-> <<>>, truthy |-> truthy]

Undefined == [t |-> "undefined", s |-> <<>>, truthy |-> FALSE]

\* the steps of sanitizeText on a string, lines 49-81
sanitizeString(s) ==
  RemoveControl(Trim(CollapseSpaces(Escape(ApplyPatterns(Trim(s), 1)))))

(***************************************************************************)
(* Validation constants, lines 18-23.  MAX_TASKS is 1000 in the source and *)
(* is scaled down here, and so is the 5MB limit of saveToLocal; every      *)
(* statement below is relative to them.                                    *)
(***************************************************************************)

MIN_LENGTH == 1

MAX_LENGTH == 100

MAX_TASKS == 3

ALLOWED_FILE_SIZE == 1024 * 1024

\* the limit of line 129 on dataString.length, 5 * 1024 * 1024 in the source:
\* here the sample tasks (147 characters) and one task of MAX_LENGTH characters
\* (128) can be saved, and a task of MAX_LENGTH characters with a second task
\* (156 or more) is too large
STORAGE_LIMIT == 150

(***************************************************************************)
(* A task, a file as importTasks sees it (its size, whether its type       *)
(* includes 'text', whether its name ends with '.txt', the text            *)
(* readAsText decodes from it, whether the read succeeds), and the sample  *)
(* tasks of lines 279-283.                                                 *)
(***************************************************************************)
Task(text, done) == [text |-> text, done |-> done]

File(size, textType, txtName, content, readable) ==
  [size |-> size, textType |-> textType, txtName |-> txtName,
   content |-> content, readable |-> readable]

SampleTasks ==
  << Task(<<"B","u","y"," ","g","r","o","c","e","r","i","e","s"," ","f",
          "o","r"," ","n","e","x","t"," ","w","e","e","k">>,
          FALSE),
     Task(<<"R","e","n","e","w"," ","c","a","r"," ","i","n","s","u","r",
          "a","n","c","e">>,
          FALSE),
     Task(<<"S","i","g","n"," ","u","p"," ","f","o","r"," ","o","n","l",
          "i","n","e"," ","c","o","u","r","s","e">>,
          FALSE) >>

\* content.split(/\r?\n/), line 334
RECURSIVE Split(_, _)
Split(s, i) ==
  LET nl == FirstIn(s, i, {"\n"})
  IN  IF nl = 0 THEN <<SubSeq(s, i, Len(s))>>
      ELSE <<SubSeq(s, i, IF nl > i /\ s[nl - 1] = "\r" THEN nl - 2 ELSE nl - 1)>>
             \o Split(s, nl + 1)

\* sanitizedLine.replace(/^\[[xX ]\]\s*/, ""), line 347
stripMarker(line) ==
  IF /\ Len(line) >= 3
     /\ line[1] = "["
     /\ line[2] \in {"x", "X", " "}
     /\ line[3] = "]"
    THEN SubSeq(line, FirstNotIn(line, 4, WhiteSpace), Len(line))
    ELSE line

(***************************************************************************)
(* localStorage[STORAGE_KEY] is one of: no entry; a string JSON.parse      *)
(* rejects; the JSON text of a value that is no array; the JSON text of an *)
(* array.  JSON.stringify and JSON.parse are the platform's, so the JSON   *)
(* text of an array is kept as the sequence of its items, each item with   *)
(* its typeof and its text and done properties as JavaScript values.       *)
(***************************************************************************)
NoEntry == [kind |-> "null", items |-> <<>>]

\* the entry is the empty string
EmptyString == [kind |-> "empty", items |-> <<>>]

NotJson == [kind |-> "invalid", items |-> <<>>]

JsonNonArray == [kind |-> "value", items |-> <<>>]

JsonArray(items) == [kind |-> "array", items |-> items]

Obj(text, done) == [type |-> "object", text |-> text, done |-> done]

NonObj(type) == [type |-> type, text |-> Undefined, done |-> Undefined]

(***************************************************************************)
(* The bounds of the model and the inputs the events draw from.            *)
(***************************************************************************)
\* the number of events of a run
MaxEvents == 2

\* the number of file reads in flight at once
MaxReaders == 1

\* what the user types into taskInput
AddInputs ==
  { <<"a">>,
    <<"A", " ">>,
    <<"<","b",">","a","<","/","b",">">>,
    <<"&">>,
    <<" ", " ">>,
    <<"<", "i", ">", "U+0001">>,
    Rep(<<"a">>, MAX_LENGTH),
    Rep(<<"a">>, MAX_LENGTH + 1),
    Rep(<<"&">>, 21) }

TextFile(content) == File(Len(content), TRUE, TRUE, content, TRUE)

\* the files the user picks
ImportFiles ==
  { TextFile(<<"[","x","]"," ","B","u","y"," ","m","i","l","k","\n","[",
             " ","]"," ","W","a","l","k"," ","d","o","g","\n">>),
    File(11, FALSE, TRUE,
         <<"a","\r","\n","A","\r","\n","[","X","]"," ","a">>, TRUE),
    TextFile(<<"["," ","]"," ","a","&","b","\n","\n","<","i",">","[","x",
             "]","<","/","i",">"," ","c","\n">>
               \o Rep(<<"a">>, MAX_LENGTH + 1)),
    TextFile(<<"[","x","]","\n","<","b",">","<","/","b",">","\n">>
               \o Rep(<<"&">>, 21)),
    TextFile(Rep(<<"a", "\n">>, MAX_TASKS)),
    TextFile(Rep(<<"a", "\n">>, MAX_TASKS + 1)),
    File(ALLOWED_FILE_SIZE + 1, TRUE, TRUE, <<>>, TRUE),
    File(1, FALSE, FALSE, <<"a">>, TRUE),
    File(1, TRUE, TRUE, <<"a">>, FALSE) }

\* what localStorage[STORAGE_KEY] holds when the page is first loaded
InitialEntries ==
  { NoEntry,
    EmptyString,
    NotJson,
    JsonNonArray,
    JsonArray(<< NonObj("null"),
                 NonObj("number"),
                 Obj(Str(<<"a", "<", "b", ">">>), Num(TRUE)),
                 Obj(Num(TRUE), Bool(TRUE)),
                 Obj(Undefined, Bool(TRUE)),
                 Obj(Str(<<" ", " ">>), Bool(FALSE)),
                 Obj(Str(<<"A">>), Str(<<"n", "o">>)) >>),
    JsonArray(<< Obj(Str(Rep(<<"a">>, MAX_LENGTH + 1)), Bool(FALSE)) >>),
    JsonArray([i \in 1..(MAX_TASKS + 1) |->
                 Obj(Str(<<LowerCase[i]>>), Bool(FALSE))]) }

\* what localStorage['autosaveEnabled'] holds when the page is first loaded
InitialFlags == {"null", "true", "false"}

\* sanitizeText, lines 43-84
sanitizeText(v) ==
  IF v.t # "string" THEN <<>>
  ELSE sanitizeString(v.s)


(***************************************************************************)
(* The messages handed to showError.                                       *)
(***************************************************************************)
NoMessage == ""

ErrEmpty == "Task cannot be empty or contain only special characters."

ErrTooLong == "Task must be " \o ToString(MAX_LENGTH) \o " characters or less."

ErrDuplicate == "This task already exists!"

ErrCapacity == "Maximum " \o ToString(MAX_TASKS) \o " tasks allowed."

ErrSaveTooLarge == "Data too large to save automatically."

ErrSaveFailed == "Failed to save data. Storage may be full."

ErrLoadFailed == "Failed to load saved data. Starting fresh."

ErrFileTooLarge == "File too large. Maximum size is 1MB."

ErrFileType == "Please select a valid text file (.txt)."

ErrTooManyLines ==
  "File contains too many tasks. Maximum " \o ToString(MAX_TASKS) \o " allowed."

ErrNoValidTasks == "No valid tasks found in the file."

ErrProcessing == "Error processing file. Please check the file format."

ErrReading == "Error reading file. Please try again."

ErrAutosave == "Failed to update auto-save settings."

ErrExport == "Failed to export tasks."

MsgExported == "Tasks exported successfully!"

MsgImported(n) == ToString(n) \o " tasks imported successfully!"

(***************************************************************************)
(* The state                                                               *)
(***************************************************************************)
VARIABLES
  todos,            \* let todos, line 13: a sequence of [text, done]
  unsavedChanges,   \* let unsavedChanges, line 14
  autosaveChecked,  \* autosaveToggle.checked
  storedTodos,      \* localStorage[STORAGE_KEY]
  storedFlag,       \* localStorage['autosaveEnabled']
  rows,             \* the rows of tbody, as render left them
  reading,          \* the files whose FileReader has not called back yet
  shown,            \* what the last handler passed to showError, if anything
  events            \* the number of events handled since the first page load

vars == <<todos, unsavedChanges, autosaveChecked, storedTodos, storedFlag,
          rows, reading, shown, events>>

\* JSON.stringify(todos), line 126
Stringify(list) ==
  JsonArray([i \in 1..Len(list) |->
               Obj(Str(list[i].text), Bool(list[i].done))])

\* the length of JSON.stringify of a string: the quotes, two characters for
\* a quote, a backslash and \b \t \n \f \r, six for another control character
JsonStringLength(s) ==
  LET two == {i \in 1..Len(s) : s[i] \in {"\"", "\\", "\t", "\n", "\r", "\f", "U+0008"}}
      six == {i \in 1..Len(s) : s[i] \in ControlChars \ {"\f", "U+0008", "U+007F"}}
  IN  2 + Len(s) + Cardinality(two) + 5 * Cardinality(six)

\* dataString.length, line 129: [{"text":"...","done":false},...]
RECURSIVE ItemsLength(_, _)
ItemsLength(list, k) ==
  IF k > Len(list) THEN 0
  ELSE 8 + JsonStringLength(list[k].text) + 8
         + (IF list[k].done THEN 4 ELSE 5) + 1
         + (IF k < Len(list) THEN 1 ELSE 0)
         + ItemsLength(list, k + 1)

StringifyLength(list) == 2 + ItemsLength(list, 1)

(***************************************************************************)
(* validateTask, lines 91-117, against the list `list`                     *)
(***************************************************************************)
Invalid(error) == [valid |-> FALSE, error |-> error, sanitized |-> <<>>]

\* isDuplicate comparing the texts as they are, without toLowerCase
isDuplicateExact(sanitized, list) ==
  \E i \in 1..Len(list) : list[i].text = sanitized

isDuplicate(sanitized, list) ==
  \E i \in 1..Len(list) : LowerStr(list[i].text) = LowerStr(sanitized)

\* checkSanitized with the length check off by one: >= for >
checkLengthEarly(sanitized, list) ==
  IF sanitized = <<>> \/ Len(sanitized) < MIN_LENGTH
    THEN Invalid(ErrEmpty)
  ELSE IF Len(sanitized) >= MAX_LENGTH
    THEN Invalid(ErrTooLong)
  ELSE IF isDuplicate(sanitized, list)
    THEN Invalid(ErrDuplicate)
  ELSE IF Len(list) >= MAX_TASKS
    THEN Invalid(ErrCapacity)
  ELSE [valid |-> TRUE, error |-> NoMessage, sanitized |-> sanitized]

\* checkSanitized with the capacity check moved in front of the duplicate check
checkCapacityFirst(sanitized, list) ==
  IF sanitized = <<>> \/ Len(sanitized) < MIN_LENGTH
    THEN Invalid(ErrEmpty)
  ELSE IF Len(sanitized) > MAX_LENGTH
    THEN Invalid(ErrTooLong)
  ELSE IF Len(list) >= MAX_TASKS
    THEN Invalid(ErrCapacity)
  ELSE IF isDuplicate(sanitized, list)
    THEN Invalid(ErrDuplicate)
  ELSE [valid |-> TRUE, error |-> NoMessage, sanitized |-> sanitized]

\* checkSanitized with the capacity check off by one: > for >=
checkCapacityLate(sanitized, list) ==
  IF sanitized = <<>> \/ Len(sanitized) < MIN_LENGTH
    THEN Invalid(ErrEmpty)
  ELSE IF Len(sanitized) > MAX_LENGTH
    THEN Invalid(ErrTooLong)
  ELSE IF isDuplicate(sanitized, list)
    THEN Invalid(ErrDuplicate)
  ELSE IF Len(list) > MAX_TASKS
    THEN Invalid(ErrCapacity)
  ELSE [valid |-> TRUE, error |-> NoMessage, sanitized |-> sanitized]

\* the checks of lines 95-114 on sanitized = sanitizeText(text)
checkSanitized(sanitized, list) ==
  IF sanitized = <<>> \/ Len(sanitized) < MIN_LENGTH
    THEN Invalid(ErrEmpty)
  ELSE IF Len(sanitized) > MAX_LENGTH
    THEN Invalid(ErrTooLong)
  ELSE IF isDuplicate(sanitized, list)
    THEN Invalid(ErrDuplicate)
  ELSE IF Len(list) >= MAX_TASKS
    THEN Invalid(ErrCapacity)
  ELSE [valid |-> TRUE, error |-> NoMessage, sanitized |-> sanitized]

validateTask(text, list) == checkSanitized(sanitizeText(text), list)

(***************************************************************************)
(* saveToLocal, lines 123-143, with todos = list, unsavedChanges = unsaved *)
(* and autosaveToggle.checked = checked.  setItemOk says whether           *)
(* localStorage.setItem returns (TRUE) or throws (FALSE).  The result is   *)
(* the return value, localStorage[STORAGE_KEY] and unsavedChanges after    *)
(* the call, and the message shown.                                        *)
(***************************************************************************)
SaveResult(ok, stored, unsaved, msg) ==
  [ok |-> ok, stored |-> stored, unsaved |-> unsaved, msg |-> msg]

\* saveToLocal without the test of autosaveToggle.checked
saveToLocalAlways(list, unsaved, checked, setItemOk) ==
  IF StringifyLength(list) > STORAGE_LIMIT
    THEN SaveResult(FALSE, storedTodos, unsaved, ErrSaveTooLarge)
  ELSE IF ~setItemOk
    THEN SaveResult(FALSE, storedTodos, unsaved, ErrSaveFailed)
  ELSE SaveResult(TRUE, Stringify(list), FALSE, NoMessage)

\* saveToLocal with setItem called before the size check
saveToLocalWriteFirst(list, unsaved, checked, setItemOk) ==
  IF checked
    THEN IF ~setItemOk
           THEN SaveResult(FALSE, storedTodos, unsaved, ErrSaveFailed)
         ELSE IF StringifyLength(list) > STORAGE_LIMIT
           THEN SaveResult(FALSE, Stringify(list), unsaved, ErrSaveTooLarge)
         ELSE SaveResult(TRUE, Stringify(list), FALSE, NoMessage)
    ELSE SaveResult(TRUE, storedTodos, unsaved, NoMessage)

saveToLocal(list, unsaved, checked, setItemOk) ==
  IF checked
    THEN IF StringifyLength(list) > STORAGE_LIMIT
           THEN SaveResult(FALSE, storedTodos, unsaved, ErrSaveTooLarge)
         ELSE IF ~setItemOk
           THEN SaveResult(FALSE, storedTodos, unsaved, ErrSaveFailed)
         ELSE SaveResult(TRUE, Stringify(list), FALSE, NoMessage)
    ELSE SaveResult(TRUE, storedTodos, unsaved, NoMessage)

(***************************************************************************)
(* loadFromLocal, lines 149-175, on the entry `data`: the list returned    *)
(* and the message shown                                                   *)
(***************************************************************************)
LoadResult(list, msg) == [list |-> list, msg |-> msg]

\* .filter(item => item && typeof item === 'object'), line 162
objectItems(items) == SelectSeq(items, LAMBDA item : item.type = "object")

\* .map(item => ({text: sanitizeText(item.text || ''), done: Boolean(item.done)})),
\* lines 163-166
mapItems(objects) ==
  [i \in 1..Len(objects) |->
     Task(sanitizeText(IF objects[i].text.truthy THEN objects[i].text
                       ELSE Str(<<>>)),
          objects[i].done.truthy)]

\* .filter(item => item.text.length > 0), line 167
nonEmptyItems(mapped) == SelectSeq(mapped, LAMBDA item : Len(item.text) > 0)

\* Slice without the truncation
SliceAll(list, n) == list

\* .slice(0, n), line 168
Slice(list, n) == SubSeq(list, 1, IF Len(list) < n THEN Len(list) ELSE n)

\* loadFromLocal with a JSON value that is no array taken for no tasks
loadFromLocalAnyValue(data) ==
  IF data.kind \in {"null", "empty", "value"} THEN LoadResult(<<>>, NoMessage)
  ELSE IF data.kind # "array" THEN LoadResult(<<>>, ErrLoadFailed)
  ELSE LoadResult(Slice(nonEmptyItems(mapItems(objectItems(data.items))),
                        MAX_TASKS),
                  NoMessage)

loadFromLocal(data) ==
  IF data.kind \in {"null", "empty"} THEN LoadResult(<<>>, NoMessage)
  ELSE IF data.kind # "array" THEN LoadResult(<<>>, ErrLoadFailed)
  ELSE LoadResult(Slice(nonEmptyItems(mapItems(objectItems(data.items))),
                        MAX_TASKS),
                  NoMessage)

(***************************************************************************)
(* The script's top level, lines 378-382 and 430-432: the state a page     *)
(* load leaves.  checked0 is autosaveToggle.checked as the page's markup   *)
(* (or the browser's form restoration) sets it.                            *)
(***************************************************************************)
\* lines 380-382: todos is what loadFromLocal returns when the toggle is
\* checked, and stays [] when it is not
startTodos(checked, data) ==
  IF checked THEN loadFromLocal(data) ELSE LoadResult(<<>>, NoMessage)

\* lines 430-432: the first render, of the list of `loaded`
startRender(loaded) ==
  /\ todos' = loaded.list
  /\ rows' = loaded.list
  /\ shown' = loaded.msg

Startup(checked0) ==
  LET enabled == storedFlag = "true"
      checked == checked0 \/ enabled
  IN  /\ autosaveChecked' = checked
      /\ startRender(startTodos(checked, storedTodos))
      /\ unsavedChanges' = FALSE
      /\ reading' = <<>>
      /\ UNCHANGED <<storedTodos, storedFlag>>

(***************************************************************************)
(* addTask, lines 251-272, with input.value = text                         *)
(***************************************************************************)
\* addValidated without the return of line 257: the rejected text is reported
\* and the handler goes on to push validation.sanitized
addValidatedNoReturn(validation, setItemOk) ==
  LET pushed == Append(todos, Task(validation.sanitized, FALSE))
      saved  == saveToLocal(pushed, TRUE, autosaveChecked, setItemOk)
  IN  IF ~saved.ok
        THEN /\ todos' = SubSeq(pushed, 1, Len(pushed) - 1)
             /\ unsavedChanges' = saved.unsaved
             /\ shown' = saved.msg
             /\ UNCHANGED <<autosaveChecked, storedTodos, storedFlag, rows, reading>>
      ELSE /\ todos' = pushed
           /\ unsavedChanges' = saved.unsaved
           /\ storedTodos' = saved.stored
           /\ rows' = pushed
           /\ shown' = IF validation.valid THEN saved.msg ELSE validation.error
           /\ UNCHANGED <<autosaveChecked, storedFlag, reading>>

\* addValidated without the todos.pop() of line 264
addValidatedNoPop(validation, setItemOk) ==
  LET pushed == Append(todos, Task(validation.sanitized, FALSE))
      saved  == saveToLocal(pushed, TRUE, autosaveChecked, setItemOk)
  IN  IF ~validation.valid
        THEN /\ shown' = validation.error
             /\ UNCHANGED <<todos, unsavedChanges, autosaveChecked,
                            storedTodos, storedFlag, rows, reading>>
      ELSE IF ~saved.ok
        THEN /\ todos' = pushed
             /\ unsavedChanges' = saved.unsaved
             /\ shown' = saved.msg
             /\ UNCHANGED <<autosaveChecked, storedTodos, storedFlag, rows, reading>>
      ELSE /\ todos' = pushed
           /\ unsavedChanges' = saved.unsaved
           /\ storedTodos' = saved.stored
           /\ rows' = pushed
           /\ shown' = saved.msg
           /\ UNCHANGED <<autosaveChecked, storedFlag, reading>>

\* lines 255-271, with validation = validateTask(input.value)
addValidated(validation, setItemOk) ==
  LET pushed == Append(todos, Task(validation.sanitized, FALSE))
      saved  == saveToLocal(pushed, TRUE, autosaveChecked, setItemOk)
  IN  IF ~validation.valid
        THEN /\ shown' = validation.error
             /\ UNCHANGED <<todos, unsavedChanges, autosaveChecked,
                            storedTodos, storedFlag, rows, reading>>
      ELSE IF ~saved.ok
        THEN /\ todos' = SubSeq(pushed, 1, Len(pushed) - 1)
             /\ unsavedChanges' = saved.unsaved
             /\ shown' = saved.msg
             /\ UNCHANGED <<autosaveChecked, storedTodos, storedFlag, rows, reading>>
      ELSE /\ todos' = pushed
           /\ unsavedChanges' = saved.unsaved
           /\ storedTodos' = saved.stored
           /\ rows' = pushed
           /\ shown' = saved.msg
           /\ UNCHANGED <<autosaveChecked, storedFlag, reading>>

addTask(text, setItemOk) ==
  addValidated(validateTask(Str(text), todos), setItemOk)

(***************************************************************************)
(* The DELETE button of row idx, lines 216-221                             *)
(***************************************************************************)
\* todos.splice(idx, 1)
Splice(list, idx) ==
  IF idx > Len(list) THEN list
  ELSE SubSeq(list, 1, idx - 1) \o SubSeq(list, idx + 1, Len(list))

\* deleteRow without the render(todos) of line 220
deleteRowNoRender(idx, setItemOk) ==
  LET spliced == Splice(todos, idx)
      saved   == saveToLocal(spliced, TRUE, autosaveChecked, setItemOk)
  IN  /\ idx \in 1..Len(rows)
      /\ todos' = spliced
      /\ unsavedChanges' = saved.unsaved
      /\ storedTodos' = saved.stored
      /\ shown' = saved.msg
      /\ UNCHANGED <<autosaveChecked, storedFlag, rows, reading>>

deleteRow(idx, setItemOk) ==
  LET spliced == Splice(todos, idx)
      saved   == saveToLocal(spliced, TRUE, autosaveChecked, setItemOk)
  IN  /\ idx \in 1..Len(rows)
      /\ todos' = spliced
      /\ unsavedChanges' = saved.unsaved
      /\ storedTodos' = saved.stored
      /\ rows' = spliced
      /\ shown' = saved.msg
      /\ UNCHANGED <<autosaveChecked, storedFlag, reading>>

(***************************************************************************)
(* The FINISHED button of row idx, lines 228-233                           *)
(***************************************************************************)
\* finishRow with saveToLocal called before the flag is flipped
finishRowSaveFirst(idx, setItemOk) ==
  LET flipped == [todos EXCEPT ![idx].done = ~todos[idx].done]
      saved   == saveToLocal(todos, TRUE, autosaveChecked, setItemOk)
  IN  /\ idx \in 1..Len(rows)
      /\ IF idx > Len(todos)
           THEN /\ shown' = NoMessage
                /\ UNCHANGED <<todos, unsavedChanges, autosaveChecked,
                               storedTodos, storedFlag, rows, reading>>
           ELSE /\ todos' = flipped
                /\ unsavedChanges' = saved.unsaved
                /\ storedTodos' = saved.stored
                /\ rows' = flipped
                /\ shown' = saved.msg
                /\ UNCHANGED <<autosaveChecked, storedFlag, reading>>

finishRow(idx, setItemOk) ==
  LET flipped == [todos EXCEPT ![idx].done = ~todos[idx].done]
      saved   == saveToLocal(flipped, TRUE, autosaveChecked, setItemOk)
  IN  /\ idx \in 1..Len(rows)
      /\ IF idx > Len(todos)
           THEN \* todos[idx] is undefined: the handler throws a TypeError
                /\ shown' = NoMessage
                /\ UNCHANGED <<todos, unsavedChanges, autosaveChecked,
                               storedTodos, storedFlag, rows, reading>>
           ELSE /\ todos' = flipped
                /\ unsavedChanges' = saved.unsaved
                /\ storedTodos' = saved.stored
                /\ rows' = flipped
                /\ shown' = saved.msg
                /\ UNCHANGED <<autosaveChecked, storedFlag, reading>>

(***************************************************************************)
(* getTasks, lines 277-287                                                 *)
(***************************************************************************)
getTasks(setItemOk) ==
  LET saved == saveToLocal(SampleTasks, TRUE, autosaveChecked, setItemOk)
  IN  IF Len(todos) # 0
        THEN /\ shown' = NoMessage
             /\ UNCHANGED <<todos, unsavedChanges, autosaveChecked,
                            storedTodos, storedFlag, rows, reading>>
        ELSE /\ todos' = SampleTasks
             /\ unsavedChanges' = saved.unsaved
             /\ storedTodos' = saved.stored
             /\ rows' = SampleTasks
             /\ shown' = saved.msg
             /\ UNCHANGED <<autosaveChecked, storedFlag, reading>>

(***************************************************************************)
(* exportTasks, lines 292-307.  downloadOk says whether the Blob, the      *)
(* object URL and the click go through (TRUE) or one of them throws.       *)
(***************************************************************************)
\* `${t.done ? "[x]" : "[ ]"} ${t.text}`, line 294
exportLine(t) ==
  (IF t.done THEN <<"[", "x", "]">> ELSE <<"[", " ", "]">>) \o <<" ">> \o t.text

\* todos.map(...).join("\n"), line 294
exportContent(list) ==
  Flatten([i \in 1..Len(list) |->
             IF i = 1 THEN exportLine(list[i])
             ELSE <<"\n">> \o exportLine(list[i])])

\* exportTasks with unsavedChanges cleared before the download is tried
exportTasksClearFirst(downloadOk) ==
  /\ unsavedChanges' = FALSE
  /\ shown' = IF downloadOk THEN MsgExported ELSE ErrExport
  /\ UNCHANGED <<todos, autosaveChecked, storedTodos, storedFlag, rows, reading>>

exportTasks(downloadOk) ==
  /\ unsavedChanges' = IF downloadOk THEN FALSE ELSE unsavedChanges
  /\ shown' = IF downloadOk THEN MsgExported ELSE ErrExport
  /\ UNCHANGED <<todos, autosaveChecked, storedTodos, storedFlag, rows, reading>>

(***************************************************************************)
(* importTasks, lines 313-376                                              *)
(***************************************************************************)
\* .filter(line => line.trim()), line 334
fileLines(content) ==
  SelectSeq(Split(content, 1), LAMBDA line : Trim(line) # <<>>)

\* sanitizedLine.startsWith("[x]") || sanitizedLine.startsWith("[X]"), line 346
startsWithDone(line) ==
  HasAt(line, 1, <<"[", "x", "]">>) \/ HasAt(line, 1, <<"[", "X", "]">>)

\* lines 349-351: what one line pushes onto newTodos
pushText(text, done) ==
  IF text # <<>> /\ Len(text) <= MAX_LENGTH THEN <<Task(text, done)>> ELSE <<>>

\* importLine with the marker looked for after it has been stripped
importLineStripFirst(sanitizedLine) ==
  IF sanitizedLine = <<>> THEN <<>>
  ELSE pushText(sanitizeText(Str(stripMarker(sanitizedLine))),
                startsWithDone(stripMarker(sanitizedLine)))

\* lines 343-351, with sanitizedLine = sanitizeText(line)
importLine(sanitizedLine) ==
  IF sanitizedLine = <<>> THEN <<>>
  ELSE pushText(sanitizeText(Str(stripMarker(sanitizedLine))),
                startsWithDone(sanitizedLine))

\* the loop of lines 341-353: newTodos
importLines(lines) ==
  Flatten([k \in 1..Len(lines) |-> importLine(sanitizeText(Str(lines[k])))])

\* the change event of importFile with the file f chosen, lines 313-329 and
\* 374-375: the checks, then the read is started
importTasks(f) ==
  IF f.size > ALLOWED_FILE_SIZE
    THEN /\ shown' = ErrFileTooLarge
         /\ UNCHANGED <<todos, unsavedChanges, autosaveChecked, storedTodos,
                        storedFlag, rows, reading>>
  ELSE IF ~f.textType /\ ~f.txtName
    THEN /\ shown' = ErrFileType
         /\ UNCHANGED <<todos, unsavedChanges, autosaveChecked, storedTodos,
                        storedFlag, rows, reading>>
  ELSE /\ reading' = Append(reading, f)
       /\ shown' = NoMessage
       /\ UNCHANGED <<todos, unsavedChanges, autosaveChecked, storedTodos,
                      storedFlag, rows>>

\* the click on importDiv that ends without a file: the confirm is declined
\* (line 408) or the picker is closed (line 315)
importCancelled ==
  /\ shown' = NoMessage
  /\ UNCHANGED <<todos, unsavedChanges, autosaveChecked, storedTodos,
                 storedFlag, rows, reading>>

Without(seq, i) == SubSeq(seq, 1, i - 1) \o SubSeq(seq, i + 1, Len(seq))

\* reader.onload of the i-th pending read, lines 331-368
\* replaceTodos with todos assigned before the check of line 355
replaceTodosEarly(newTodos, setItemOk) ==
  LET saved == saveToLocal(newTodos, TRUE, autosaveChecked, setItemOk)
  IN  IF Len(newTodos) = 0
        THEN /\ todos' = newTodos
             /\ shown' = ErrNoValidTasks
             /\ UNCHANGED <<unsavedChanges, autosaveChecked,
                            storedTodos, storedFlag, rows>>
        ELSE /\ todos' = newTodos
             /\ unsavedChanges' = saved.unsaved
             /\ storedTodos' = saved.stored
             /\ rows' = newTodos
             /\ shown' = MsgImported(Len(newTodos))
             /\ UNCHANGED <<autosaveChecked, storedFlag>>

\* lines 355-364, with the newTodos the loop has collected
replaceTodos(newTodos, setItemOk) ==
  LET saved == saveToLocal(newTodos, TRUE, autosaveChecked, setItemOk)
  IN  IF Len(newTodos) = 0
        THEN /\ shown' = ErrNoValidTasks
             /\ UNCHANGED <<todos, unsavedChanges, autosaveChecked,
                            storedTodos, storedFlag, rows>>
        ELSE /\ todos' = newTodos
             /\ unsavedChanges' = saved.unsaved
             /\ storedTodos' = saved.stored
             /\ rows' = newTodos
             /\ shown' = MsgImported(Len(newTodos))
             /\ UNCHANGED <<autosaveChecked, storedFlag>>

\* lines 336-364, with the lines of line 334
importFrom(lines, setItemOk) ==
  IF Len(lines) > MAX_TASKS
    THEN /\ shown' = ErrTooManyLines
         /\ UNCHANGED <<todos, unsavedChanges, autosaveChecked,
                        storedTodos, storedFlag, rows>>
    ELSE replaceTodos(importLines(lines), setItemOk)

readerOnload(i, setItemOk) ==
  /\ i \in 1..Len(reading)
  /\ reading[i].readable
  /\ reading' = Without(reading, i)
  /\ importFrom(fileLines(reading[i].content), setItemOk)

\* reader.onerror of the i-th pending read, lines 370-372
readerOnerror(i) ==
  /\ i \in 1..Len(reading)
  /\ ~reading[i].readable
  /\ reading' = Without(reading, i)
  /\ shown' = ErrReading
  /\ UNCHANGED <<todos, unsavedChanges, autosaveChecked, storedTodos,
                 storedFlag, rows>>

(***************************************************************************)
(* The change event of autosaveToggle, lines 414-421: the browser has      *)
(* flipped the checkbox when the listener runs.  flagOk and setItemOk say  *)
(* whether the two setItem calls return or throw.                          *)
(***************************************************************************)
toggleAutosave(flagOk, setItemOk) ==
  LET checked == ~autosaveChecked
      saved   == saveToLocal(todos, unsavedChanges, checked, setItemOk)
  IN  /\ autosaveChecked' = checked
      /\ IF ~flagOk
           THEN /\ shown' = ErrAutosave
                /\ UNCHANGED <<todos, unsavedChanges, storedTodos, storedFlag,
                               rows, reading>>
           ELSE /\ storedFlag' = IF checked THEN "true" ELSE "false"
                /\ unsavedChanges' = saved.unsaved
                /\ storedTodos' = saved.stored
                /\ shown' = saved.msg
                /\ UNCHANGED <<todos, rows, reading>>

(***************************************************************************)
(* The specification: the first page load, then one event at a time.       *)
(***************************************************************************)
\* the first render, as startRender
firstRender(loaded) ==
  /\ todos = loaded.list
  /\ rows = loaded.list
  /\ shown = loaded.msg

Init ==
  \E data \in InitialEntries, flag \in InitialFlags, checked0 \in BOOLEAN :
    /\ storedTodos = data
    /\ storedFlag = flag
    /\ autosaveChecked = (checked0 \/ flag = "true")
    /\ firstRender(startTodos(checked0 \/ flag = "true", data))
    /\ unsavedChanges = FALSE
    /\ reading = <<>>
    /\ events = 0

Tick == events < MaxEvents /\ events' = events + 1

\* whether localStorage.setItem returns or throws, where a handler calls it
SetItemOutcomes == IF autosaveChecked THEN BOOLEAN ELSE {TRUE}

Reload == \E checked0 \in BOOLEAN : Tick /\ Startup(checked0)

AddTask == \E text \in AddInputs, ok \in SetItemOutcomes : Tick /\ addTask(text, ok)

DeleteRow == \E idx \in 1..Len(rows), ok \in SetItemOutcomes : Tick /\ deleteRow(idx, ok)

FinishRow == \E idx \in 1..Len(rows), ok \in SetItemOutcomes : Tick /\ finishRow(idx, ok)

GetTasks == \E ok \in SetItemOutcomes : Tick /\ getTasks(ok)

ExportTasks == \E ok \in BOOLEAN : Tick /\ exportTasks(ok)

ImportTasks ==
  \E f \in ImportFiles : Tick /\ Len(reading) < MaxReaders /\ importTasks(f)

ImportCancelled == Tick /\ importCancelled

ReaderOnload ==
  \E i \in 1..Len(reading), ok \in SetItemOutcomes : Tick /\ readerOnload(i, ok)

ReaderOnerror == \E i \in 1..Len(reading) : Tick /\ readerOnerror(i)

ToggleAutosave ==
  \E flagOk \in BOOLEAN, ok \in (IF autosaveChecked THEN {TRUE} ELSE BOOLEAN) :
    Tick /\ toggleAutosave(flagOk, ok)

Next ==
  \/ Reload
  \/ AddTask
  \/ DeleteRow
  \/ FinishRow
  \/ GetTasks
  \/ ExportTasks
  \/ ImportTasks
  \/ ImportCancelled
  \/ ReaderOnload
  \/ ReaderOnerror
  \/ ToggleAutosave

Spec == Init /\ [][Next]_vars

(***************************************************************************)
(* Properties of the task list                                             *)
(***************************************************************************)
\* no two tasks of list have case-insensitively equal text
NoDup(list) ==
  \A i, j \in 1..Len(list) :
    i # j => LowerStr(list[i].text) # LowerStr(list[j].text)

\* C1, as stated: in every reachable state no two tasks of the task list
\* have case-insensitively equal text
C1_NoDuplicates == NoDup(todos)

\* C1, amended: add, delete, toggle and sample load never introduce a pair of
\* tasks with case-insensitively equal text
C1_HandlersKeepDistinct ==
  [][(NoDup(todos) /\ ~NoDup(todos'))
       => ~(AddTask \/ DeleteRow \/ FinishRow \/ GetTasks)]_vars

\* an add was rejected as a duplicate of a task of a duplicate-free list
C1_DuplicateRejected == shown = ErrDuplicate /\ todos # <<>> /\ NoDup(todos)

\* C2: in every reachable state the task list holds at most MAX_TASKS tasks
C2_AtMostMaxTasks == Len(todos) <= MAX_TASKS

\* an import has replaced the list by MAX_TASKS tasks
C2_ImportedToTheCap == Len(todos) = MAX_TASKS /\ shown = MsgImported(MAX_TASKS)

\* C3: in every reachable state every task of the task list has a text of
\* between MIN_LENGTH and MAX_LENGTH characters
C3_TextLengths ==
  \A i \in 1..Len(todos) :
    Len(todos[i].text) >= MIN_LENGTH /\ Len(todos[i].text) <= MAX_LENGTH

(***************************************************************************)
(* Properties of import                                                    *)
(***************************************************************************)
\* the task a non-blank line of a file stands for: the line is sanitized, the
\* marker is looked for and stripped, and what is left is sanitized again
MarkedLineTask(sanitized) ==
  Task(IF sanitized = <<>> THEN <<>> ELSE sanitizeString(stripMarker(sanitized)),
       \E m \in {"x", "X"} : HasAt(sanitized, 1, <<"[", m, "]">>))

LineTask(line) == MarkedLineTask(sanitizeString(line))

ValidTask(t) == Len(t.text) >= 1 /\ Len(t.text) <= MAX_LENGTH

\* the tasks of the valid lines of a file, in file order
ExpectedImport(content) ==
  SelectSeq([k \in 1..Len(fileLines(content)) |->
               LineTask(fileLines(content)[k])],
            ValidTask)

TooManyLines(content) == Len(fileLines(content)) > MAX_TASKS

NoValidLine(content) ==
  \A k \in 1..Len(fileLines(content)) :
    ~ValidTask(LineTask(fileLines(content)[k]))

\* a step of an import that is aborted: the file is too large or of the wrong
\* type, it has too many lines or no valid line, or the read fails
AbortedImport ==
  \/ \E f \in ImportFiles :
       /\ f.size > ALLOWED_FILE_SIZE \/ (~f.textType /\ ~f.txtName)
       /\ importTasks(f)
  \/ \E i \in 1..Len(reading), ok \in BOOLEAN :
       /\ TooManyLines(reading[i].content) \/ NoValidLine(reading[i].content)
       /\ readerOnload(i, ok)
  \/ \E i \in 1..Len(reading) : readerOnerror(i)

\* a step of an import that goes through, reading the i-th pending file
CompletedImport(i) ==
  /\ ~TooManyLines(reading[i].content)
  /\ ~NoValidLine(reading[i].content)
  /\ \E ok \in BOOLEAN : readerOnload(i, ok)

ImportErrors ==
  {ErrFileTooLarge, ErrFileType, ErrTooManyLines, ErrNoValidTasks, ErrReading}

\* C4: an aborted import reports an error and leaves the task list, the rows
\* and the persisted blob as they were
C4_AbortedImportKeepsList ==
  [][~(/\ shown' \in ImportErrors
       /\ todos' = todos
       /\ rows' = rows
       /\ storedTodos' = storedTodos)
       => ~AbortedImport]_vars

\* an import was aborted for its lines while the list held tasks
C4_AbortedWithTasks ==
  shown \in {ErrTooManyLines, ErrNoValidTasks} /\ todos # <<>>

\* C5: a successful import replaces the task list by the tasks of the valid
\* lines of the file, in file order, done iff the sanitized line began with
\* [x] or [X], the marker stripped, duplicates kept
C5_ImportReplacesList ==
  [][\A i \in 1..Len(reading) :
       CompletedImport(i) =>
         /\ todos' = ExpectedImport(reading[i].content)
         /\ rows' = todos'
         /\ shown' = MsgImported(Len(todos'))]_vars

\* the file "[x] Buy milk\n[ ] Walk dog\n" has been imported
C5_BuyMilkImported ==
  /\ todos = << Task(<<"B","u","y"," ","m","i","l","k">>, TRUE),
                Task(<<"W","a","l","k"," ","d","o","g">>, FALSE) >>
  /\ shown = MsgImported(2)

(***************************************************************************)
(* Properties of the store                                                 *)
(***************************************************************************)
WellFormed(list) ==
  /\ Len(list) <= MAX_TASKS
  /\ NoDup(list)
  /\ \A i \in 1..Len(list) : ValidTask(list[i])

\* C6: when a well-formed task list has been saved with persistence enabled,
\* loading the persisted blob returns that list
C6_RoundTrip ==
  (autosaveChecked /\ WellFormed(todos) /\ storedTodos = Stringify(todos))
    => loadFromLocal(storedTodos).list = todos

\* sanitizeText of what the user types
SanitizedInput == [text \in AddInputs |-> sanitizeText(Str(text))]

\* validateTask(text) against todos
Validation(text) == checkSanitized(SanitizedInput[text], todos)

\* a step of addTask on the input text
AddOf(text) == \E ok \in BOOLEAN : addValidated(Validation(text), ok)

\* a step of a handler that changes the task list and calls saveToLocal
Mutation ==
  \E ok \in BOOLEAN :
    \/ \E text \in AddInputs : Validation(text).valid /\ AddOf(text)
    \/ \E idx \in 1..Len(todos) : deleteRow(idx, ok) \/ finishRow(idx, ok)
    \/ todos = <<>> /\ getTasks(ok)
    \/ \E i \in 1..Len(reading) : CompletedImport(i)

\* C7, as stated: while persistence is enabled, after each mutating handler the
\* persisted blob is the serialization of the task list (here: of a handler
\* that found a well-formed list with the blob in step with it, and has
\* changed the list)
C7_BlobIsCurrentList ==
  [][(/\ autosaveChecked
      /\ WellFormed(todos)
      /\ storedTodos = Stringify(todos)
      /\ todos' # todos
      /\ Mutation)
       => storedTodos' = Stringify(todos')]_vars

\* C7, amended: while persistence is enabled, after a mutating handler whose
\* write went through the persisted blob is the serialization of the task
\* list, and after one whose write failed the blob is as it was
C7_BlobAfterWrite ==
  [][(/\ autosaveChecked
      /\ storedTodos' # (IF unsavedChanges' THEN storedTodos
                         ELSE Stringify(todos')))
       => ~Mutation]_vars

\* a mutation has been written with persistence enabled
C7_MutationWritten ==
  /\ autosaveChecked
  /\ events > 0
  /\ ~unsavedChanges
  /\ shown = NoMessage
  /\ todos # <<>>
  /\ storedTodos = Stringify(todos)

(***************************************************************************)
(* Properties of interactive add                                           *)
(***************************************************************************)
IsEmpty(text) == SanitizedInput[text] = <<>>

IsTooLong(text) == Len(SanitizedInput[text]) > MAX_LENGTH

IsDuplicate(text) ==
  \E i \in 1..Len(todos) :
    LowerStr(todos[i].text) = LowerStr(SanitizedInput[text])

IsFull == Len(todos) >= MAX_TASKS

\* C8: an add surfaces one error, emptiness before length, length before
\* duplicate, duplicate before capacity
C8_ErrorPriority ==
  [][\A text \in AddInputs :
       AddOf(text) =>
         /\ IsEmpty(text) => shown' = ErrEmpty
         /\ (~IsEmpty(text) /\ IsTooLong(text)) => shown' = ErrTooLong
         /\ (~IsEmpty(text) /\ ~IsTooLong(text) /\ IsDuplicate(text))
              => shown' = ErrDuplicate
         /\ (~IsEmpty(text) /\ ~IsTooLong(text) /\ ~IsDuplicate(text) /\ IsFull)
              => shown' = ErrCapacity]_vars

\* a duplicate was rejected as a duplicate while the list was full
C8_DuplicateOnFullList == shown = ErrDuplicate /\ Len(todos) = MAX_TASKS

\* C9: an add of a text that, sanitized, equals a task of the list ignoring
\* case is rejected as a duplicate and leaves the list and the blob unchanged
C9_SecondAddRejected ==
  [][\A text \in AddInputs :
       (AddOf(text) /\ ~IsEmpty(text) /\ ~IsTooLong(text) /\ IsDuplicate(text))
         => /\ shown' = ErrDuplicate
            /\ todos' = todos
            /\ rows' = rows
            /\ storedTodos' = storedTodos]_vars

\* the second of two adds was rejected as a duplicate of the first
C9_AddedTwice ==
  /\ events = 2
  /\ shown = ErrDuplicate
  /\ Len(todos) = 1
  /\ storedTodos = NoEntry

\* C10: an add to a list of MAX_TASKS tasks fails, with the capacity error
\* when the text is otherwise valid, and the list holds the same tasks after
C10_AddToFullList ==
  [][\A text \in AddInputs :
       (AddOf(text) /\ Len(todos) = MAX_TASKS)
         => /\ todos' = todos
            /\ (~IsEmpty(text) /\ ~IsTooLong(text) /\ ~IsDuplicate(text))
                 => shown' = ErrCapacity
            /\ shown' \in {ErrEmpty, ErrTooLong, ErrDuplicate, ErrCapacity}]_vars

\* an add to a full list was rejected with the capacity error
C10_CapacityRejected == shown = ErrCapacity /\ Len(todos) = MAX_TASKS

(***************************************************************************)
(* The length limit of add                                                 *)
(***************************************************************************)
\* C11, as stated: an add of a text that is not empty once sanitized is
\* rejected as too long exactly when the text the user entered has more than
\* MAX_LENGTH characters
C11_LimitOnEnteredText ==
  [][\A text \in AddInputs :
       (AddOf(text) /\ ~IsEmpty(text))
         => (shown' = ErrTooLong <=> Len(text) > MAX_LENGTH)]_vars

\* C11, amended: the limit is on the sanitized text: the add is rejected as too
\* long exactly when the sanitized text has more than MAX_LENGTH characters,
\* and a text that passes the other checks too is appended, sanitized, unless
\* the storage write fails
C11_LimitOnSanitizedText ==
  [][\A text \in AddInputs :
       (AddOf(text) /\ ~IsEmpty(text))
         => /\ shown' = ErrTooLong <=> Len(SanitizedInput[text]) > MAX_LENGTH
            /\ (~IsTooLong(text) /\ ~IsDuplicate(text) /\ ~IsFull)
                 => \/ todos' = Append(todos, Task(SanitizedInput[text], FALSE))
                    \/ /\ autosaveChecked
                       /\ shown' \in {ErrSaveFailed, ErrSaveTooLarge}
                       /\ todos' = todos]_vars

\* a text of MAX_LENGTH characters has been added to an empty list
C11_LongestTextAdded ==
  /\ events = 1
  /\ Len(todos) = 1
  /\ Len(todos[1].text) = MAX_LENGTH
  /\ shown = NoMessage

(***************************************************************************)
(* Properties of saveToLocal, seen through the handlers that call it       *)
(***************************************************************************)
\* the list is too large to save
TooLarge(list) == StringifyLength(list) > STORAGE_LIMIT

\* what a call of saveToLocal on list leaves, persistence enabled: the blob
\* written, or the blob as it was
BlobAfterSave(list, ok) ==
  IF ok /\ ~TooLarge(list) THEN Stringify(list) ELSE storedTodos

\* what that call reports
MessageAfterSave(list, ok) ==
  IF TooLarge(list) THEN ErrSaveTooLarge
  ELSE IF ~ok THEN ErrSaveFailed
  ELSE NoMessage

\* the list addTask pushes text onto
Pushed(text) == Append(todos, Task(SanitizedInput[text], FALSE))

\* a step of delete, toggle or sample load, or of switching persistence on:
\* the handlers that call saveToLocal with the list they leave and show
\* nothing after it
SaveOfList(ok) ==
  \/ \E idx \in 1..Len(todos) : deleteRow(idx, ok) \/ finishRow(idx, ok)
  \/ todos = <<>> /\ getTasks(ok)
  \/ ~autosaveChecked /\ toggleAutosave(TRUE, ok)

\* C12: with persistence enabled, a save of a serialization over the limit or
\* a save whose write fails returns failure (add rolls back), reports its
\* error and leaves the blob as it was; any other save writes the blob and
\* reports nothing
C12_SaveOutcome ==
  [][\A ok \in BOOLEAN :
       /\ (/\ autosaveChecked'
           /\ ~(/\ storedTodos' = BlobAfterSave(todos', ok)
                /\ shown' = MessageAfterSave(todos', ok)))
            => ~SaveOfList(ok)
       /\ \A text \in AddInputs :
            (autosaveChecked /\ Validation(text).valid
               /\ addValidated(Validation(text), ok))
              => /\ storedTodos' = BlobAfterSave(Pushed(text), ok)
                 /\ shown' = MessageAfterSave(Pushed(text), ok)
                 /\ todos' = IF ok /\ ~TooLarge(Pushed(text))
                               THEN Pushed(text) ELSE todos
       /\ (autosaveChecked /\ storedTodos' # BlobAfterSave(todos', ok))
            => \A i \in 1..Len(reading) :
                 readerOnload(i, ok)
                   => \/ TooManyLines(reading[i].content)
                      \/ NoValidLine(reading[i].content)]_vars

\* the save of a second task was refused for its size and has left the blob
\* of the first
C12_SaveRefused ==
  /\ autosaveChecked
  /\ shown = ErrSaveTooLarge
  /\ unsavedChanges
  /\ Len(todos) = 1
  /\ storedTodos = Stringify(todos)

\* C13: while persistence is disabled no handler changes the persisted blob or
\* reports a save error, and an add that passes validation is never rolled
\* back
C13_DisabledSaveWritesNothing ==
  [][(~autosaveChecked /\ ~autosaveChecked') =>
       /\ storedTodos' = storedTodos
       /\ shown' \notin {ErrSaveFailed, ErrSaveTooLarge}
       /\ \A text \in AddInputs :
            (Validation(text).valid /\ AddOf(text)) => todos' = Pushed(text)]_vars

\* with persistence disabled the sample tasks were loaded and nothing was
\* written or reported
C13_SampleLoadedUnsaved ==
  /\ ~autosaveChecked
  /\ todos = SampleTasks
  /\ ~TooLarge(todos)
  /\ unsavedChanges
  /\ shown = NoMessage
  /\ storedTodos # Stringify(todos)

(***************************************************************************)
(* Properties of loadFromLocal, seen through the page load                 *)
(***************************************************************************)
\* the blob is the JSON text of an array of objects
ArrayOfRecords(blob) ==
  blob.kind = "array" /\ \A k \in 1..Len(blob.items) : blob.items[k].type = "object"

\* C14, as stated: what a page load with persistence enabled leaves for the
\* blob: no list and no message when it is absent, no list and the load error
\* when it is present and not the JSON text of an array of records
LoadedAsStated(blob, list, msg) ==
  /\ blob = NoEntry => (list = <<>> /\ msg = NoMessage)
  /\ (blob # NoEntry /\ ~ArrayOfRecords(blob))
       => (list = <<>> /\ msg = ErrLoadFailed)

\* C14, amended: no list and no message when the blob is absent or the empty
\* string, no list and the load error when it is no JSON text or the JSON text
\* of a value that is no array; the items of an array that are no objects are
\* dropped without a message
LoadedAmended(blob, list, msg) ==
  /\ blob \in {NoEntry, EmptyString} => (list = <<>> /\ msg = NoMessage)
  /\ blob \in {NotJson, JsonNonArray} => (list = <<>> /\ msg = ErrLoadFailed)
  /\ blob.kind = "array"
       => /\ msg = NoMessage
          /\ Len(list) <= Len(objectItems(blob.items))

\* a page load, first or later, that finds persistence enabled
LoadingStartup == autosaveChecked' /\ \E checked0 \in BOOLEAN : Startup(checked0)

\* C14, as stated
C14_LoadFailureReported ==
  /\ (events = 0 /\ autosaveChecked) => LoadedAsStated(storedTodos, todos, shown)
  /\ [][~LoadedAsStated(storedTodos, todos', shown') => ~LoadingStartup]_vars

\* C14, amended; the session goes on from the list loaded, with no change
\* unsaved and no read pending
C14_LoadDegrades ==
  /\ (events = 0 /\ autosaveChecked) => LoadedAmended(storedTodos, todos, shown)
  /\ [][~(/\ LoadedAmended(storedTodos, todos', shown')
          /\ rows' = todos'
          /\ ~unsavedChanges'
          /\ reading' = <<>>) => ~LoadingStartup]_vars

\* a page was loaded over a blob holding a JSON value that is no array
C14_NotAnArrayLoaded ==
  /\ autosaveChecked
  /\ storedTodos = JsonNonArray
  /\ shown = ErrLoadFailed
  /\ todos = <<>>

(***************************************************************************)
(* The handlers that run while a file is being read                        *)
(***************************************************************************)
\* C15: between the start of a file read and its completion callback no
\* handler changes the task list: a step that finds a read pending that will
\* complete, and leaves it pending, leaves the list as it is
C15_NoMutationDuringRead ==
  [][(/\ reading # <<>>
      /\ reading' = reading
      /\ \A i \in 1..Len(reading) : reading[i].readable)
       => todos' = todos]_vars

(***************************************************************************)
(* sanitizeText applied to its own results                                 *)
(***************************************************************************)
\* C16: sanitizeText is idempotent: every text of the task list, which
\* sanitizeText has returned (or which is a sample text), is returned as it
\* is when it is sanitized again
C16_Idempotent ==
  \A i \in 1..Len(todos) : sanitizeText(Str(todos[i].text)) = todos[i].text

(***************************************************************************)
(* The task list after a handler whose save has failed                     *)
(***************************************************************************)
\* with persistence enabled, the step ends with the changes unsaved: the
\* save of the handler has failed
SaveFailed == autosaveChecked /\ unsavedChanges'

\* C17, as stated: a mutating handler (add, delete, toggle, sample load,
\* import) whose save fails leaves the task list in its pre-handler state
C17_FailedSaveRestoresList ==
  [][(SaveFailed /\ todos' # todos) => ~Mutation]_vars

\* C17, amended: when its save fails, add leaves the task list and the rows
\* in their pre-handler state, while delete, toggle, sample load and import
\* keep the change they have made; none of them changes the persisted blob
C17_OnlyAddRollsBack ==
  [][SaveFailed =>
       /\ storedTodos' # storedTodos => ~Mutation
       /\ \A text \in AddInputs :
            (Validation(text).valid /\ AddOf(text))
              => (todos' = todos /\ rows' = rows)
       /\ \A idx \in 1..Len(todos), ok \in BOOLEAN :
            /\ deleteRow(idx, ok)
                 => (todos' = Splice(todos, idx) /\ rows' = todos')
            /\ finishRow(idx, ok)
                 => /\ todos' = [todos EXCEPT ![idx].done = ~todos[idx].done]
                    /\ rows' = todos'
       /\ \A ok \in BOOLEAN :
            (todos = <<>> /\ getTasks(ok))
              => (todos' = SampleTasks /\ rows' = todos')
       /\ \A i \in 1..Len(reading) :
            CompletedImport(i)
              => (todos' = ExpectedImport(reading[i].content) /\ rows' = todos')]_vars

\* an add to the empty list has failed to save and has left the list empty
C17_AddRolledBack ==
  /\ autosaveChecked
  /\ events = 1
  /\ shown = ErrSaveFailed
  /\ unsavedChanges
  /\ todos = <<>>
  /\ rows = <<>>

(***************************************************************************)
(* unsavedChanges and the leave-page warning                               *)
(***************************************************************************)
\* the step is a page load
SessionStart == \E checked0 \in BOOLEAN : Startup(checked0)

\* the step ends with the task list written to storage
ListWritten == autosaveChecked' /\ storedTodos' = Stringify(todos')

\* the step has exported the task list
ListExported == shown' = MsgExported /\ todos' = todos

\* a step that ends with unsavedChanges false has written or exported the
\* list, is a page load, or has found the flag false and left the list alone
FlagFalseSinceSync ==
  ~unsavedChanges'
    => \/ ~unsavedChanges /\ todos' = todos
       \/ ListWritten
       \/ ListExported
       \/ SessionStart

\* line 424: the beforeunload listener warns
WarningDue == ~autosaveChecked /\ unsavedChanges

\* C18, as stated: unsavedChanges is false only while the task list is the
\* one of the last write, export or page load, and the leave-page warning is
\* due after every step that has changed the list since
C18_WarningNeverSuppressed ==
  [][/\ FlagFalseSinceSync
     /\ (todos' # todos /\ ~ListWritten /\ ~SessionStart) => WarningDue']_vars

\* C18, amended: unsavedChanges is false only while the task list is the one
\* of the last write, export or page load, and with persistence disabled the
\* leave-page warning is due after every step that has changed the list since
C18_WarningWhileDisabled ==
  [][/\ FlagFalseSinceSync
     /\ (todos' # todos /\ ~autosaveChecked' /\ ~SessionStart) => WarningDue']_vars

\* with persistence disabled a task was added and the list exported: no
\* warning is due for a list that was never written
C18_ExportedUnwritten ==
  /\ ~autosaveChecked
  /\ events = 2
  /\ ~unsavedChanges
  /\ shown = MsgExported
  /\ Len(todos) = 1
  /\ storedTodos = NoEntry

(***************************************************************************)
(* The rendered rows and their buttons                                     *)
(***************************************************************************)
\* the list `after` is the list `list` without its idx-th task
RemovedAt(list, after, idx) ==
  /\ Len(after) = Len(list) - 1
  /\ \A k \in 1..Len(after) : after[k] = IF k < idx THEN list[k] ELSE list[k + 1]

\* the list `after` is the list `list` with the done flag of its idx-th task
\* flipped
FlippedAt(list, after, idx) ==
  /\ Len(after) = Len(list)
  /\ \A k \in 1..Len(list) :
       /\ after[k].text = list[k].text
       /\ after[k].done = IF k = idx THEN ~list[k].done ELSE list[k].done

\* C19: between two handlers the rendered rows are the task list, in order;
\* the DELETE button of a row removes the task the row shows and keeps the
\* others in order, the FINISHED button flips the done flag of that task and
\* leaves the other tasks and the length of the list alone
C19_RowsAreTheList ==
  /\ [](rows = todos)
  /\ [][\A idx \in 1..Len(rows), ok \in BOOLEAN :
          /\ ~RemovedAt(todos, todos', idx) => ~deleteRow(idx, ok)
          /\ ~FlippedAt(todos, todos', idx) => ~finishRow(idx, ok)]_vars

\* the DELETE button of the second of three rows was clicked, and the write
\* has failed
C19_MiddleRowDeleted ==
  /\ events = 1
  /\ autosaveChecked
  /\ unsavedChanges
  /\ Len(storedTodos.items) > MAX_TASKS
  /\ Len(todos) = 2
  /\ todos[1].text = <<"a">>
  /\ todos[2].text = <<"c">>
  /\ rows = todos

(***************************************************************************)
(* Export followed by import                                               *)
(***************************************************************************)
\* C20: importing the text that exportTasks produces for a non-empty
\* well-formed task list yields that list: same texts, done flags and order
C20_ExportImportRoundTrip ==
  (todos # <<>> /\ WellFormed(todos))
    => importLines(fileLines(exportContent(todos))) = todos

=============================================================================
